---------------------------- MODULE Spec2Model ----------------------------
(***************************************************************************)
(* The scanning pipeline of the 4-layer keyboard firmware                  *)
(* (src/firmware/left/left.ino, lines 1-303): per-cell debounce, layer     *)
(* resolution, the sticky-modifier latches and edge-triggered dispatch.    *)
(*                                                                         *)
(* One call of scanMatrix() is modelled as one Scan step (phase 1, the LED *)
(* and phase 2 of the function, lines 166-221) followed by one Dispatch    *)
(* step for every cell whose stable state differs from its dispatched      *)
(* state, in the row-major order of the loop of phase 3 (lines 224-298).   *)
(* Cells that the loop skips with continue take no step.                 *)
(*                                                                         *)
(* Time.  The code keeps lastDebounceTime[r][c] and reads millis(); it     *)
(* uses the two only through the difference now - lastDebounceTime[r][c],  *)
(* compared with DEBOUNCE_DELAY.  The model keeps that difference, as of   *)
(* the cell's latest sample, in sinceDebounce, saturated at                *)
(* DEBOUNCE_DELAY + 1 (every larger value passes the comparison alike).    *)
(* The input dt of a Scan step is the number of milliseconds between the   *)
(* previous scan's samples and this one's.                                 *)
(*                                                                         *)
(* The 2-layer firmware (src/unnamed/part_000) is a second program with    *)
(* its own state; its names carry the suffix _2L.  One call of its         *)
(* scanMatrix() is one step, since it handles a key event inside the       *)
(* sampling loop.                                                          *)
(***************************************************************************)
EXTENDS Integers, Sequences, FiniteSets

\* ------------------------------------------------------------ configuration

ROW_COUNT == 4
COL_COUNT == 7
DEBOUNCE_DELAY == 5

\* Keycodes.  The code compares keycodes only for equality, so each is kept
\* as the name the source gives it; VOL_UP and VOL_DOWN are 0x00 like ______.
Blank          == "______"
KC_L1          == "KC_L1"
KEY_FUNC       == "KEY_FUNC"
STICKY         == "STICKY"
KEY_LEFT_CTRL  == "KEY_LEFT_CTRL"
KEY_LEFT_SHIFT == "KEY_LEFT_SHIFT"
KEY_LEFT_ALT   == "KEY_LEFT_ALT"
KEY_BACKSPACE  == "KEY_BACKSPACE"
DEL            == "KEY_DELETE"
SUPER          == "KEY_LEFT_GUI"
UP             == "KEY_UP_ARROW"
DOWN           == "KEY_DOWN_ARROW"
LEFT           == "KEY_LEFT_ARROW"
RIGHT          == "KEY_RIGHT_ARROW"
VOL_UP         == Blank
VOL_DOWN       == Blank
BSLASH         == "backslash"     \* the character '\\'
DQUOTE         == "dquote"        \* the character '\"'
SQUOTE         == "squote"        \* the character '\''
BTICK          == "backtick"      \* the backquote character

keymaps ==
  << \* LAYER 0 (BASE)
     << << "q",          "w",   "e",   "r",            "t",           KEY_BACKSPACE, Blank >>,
        << "a",          "s",   "d",   "f",            "g",           "?",           "!"   >>,
        << KEY_LEFT_ALT, "z",   "x",   "c",            "v",           KC_L1,         Blank >>,
        << Blank,        Blank, Blank, KEY_LEFT_SHIFT, KEY_LEFT_CTRL, " ",           Blank >> >>,
     \* LAYER 1 (SYM)
     << << "@",   ":",   "$",   "/",            "-",           KEY_BACKSPACE, Blank    >>,
        << "~",   "<",   "%",   "*",            "+",           SQUOTE,        KEY_FUNC >>,
        << ";",   ">",   "&",   "^",            "=",           KC_L1,         Blank    >>,
        << Blank, Blank, Blank, KEY_LEFT_SHIFT, KEY_LEFT_CTRL, " ",           Blank    >> >>,
     \* LAYER 2 (FN)
     << << "KEY_F1", "KEY_F2", "KEY_F3", "KEY_F4",       "KEY_F5",      DEL,      Blank    >>,
        << "KEY_F6", "KEY_F7", "KEY_F8", "KEY_F9",       "KEY_F10",     VOL_UP,   KEY_FUNC >>,
        << STICKY,   SUPER,    Blank,    "KEY_F11",      "KEY_F12",     KC_L1,    Blank    >>,
        << Blank,    Blank,    Blank,    KEY_LEFT_SHIFT, KEY_LEFT_CTRL, VOL_DOWN, Blank    >> >>,
     \* LAYER 3 (SHIFTED LAYER 1)
     << << Blank, Blank, Blank, BSLASH, "_",   Blank, Blank >>,
        << Blank, Blank, "|",   UP,    BTICK, DQUOTE, Blank >>,
        << Blank, Blank, LEFT,  DOWN,  RIGHT, Blank, Blank >>,
        << Blank, Blank, Blank, Blank, Blank, Blank, " "   >> >> >>

\* The 2-layer firmware: its matrix has the same dimensions, ______ and
\* KC_L1 have the same values.
DEBOUNCE_DELAY_2L == 10

KEY_ESC         == "KEY_ESC"
KEY_RETURN      == "KEY_RETURN"
KEY_TAB         == "KEY_TAB"
KEY_RIGHT_CTRL  == "KEY_RIGHT_CTRL"
KEY_RIGHT_SHIFT == "KEY_RIGHT_SHIFT"
KEY_RIGHT_ALT   == "KEY_RIGHT_ALT"

keymaps_2L ==
  << \* LAYER 0 (BASE)
     << << Blank,   KEY_BACKSPACE, "y",            "u",             "i",   "o",   "p"   >>,
        << KEY_ESC, KEY_RETURN,    "h",            "j",             "k",   "l",   "."   >>,
        << Blank,   KC_L1,         "b",            "n",             "m",   ",",   ";"   >>,
        << Blank,   " ",           KEY_RIGHT_CTRL, KEY_RIGHT_SHIFT, Blank, Blank, Blank >> >>,
     \* LAYER 1 (SYM)
     << << Blank,   KEY_BACKSPACE, "7",            "8",             "9",   "(",   ")"   >>,
        << KEY_TAB, KEY_RETURN,    "4",            "5",             "6",   "[",   "]"   >>,
        << Blank,   KC_L1,         "1",            "2",             "3",   "{",   "}"   >>,
        << Blank,   " ",           KEY_RIGHT_ALT,  "0",             Blank, Blank, Blank >> >> >>

\* The rows and columns of the matrix, indexed from 0 as in the source; a
\* cell is a pair <<row, col>>, and a state array a[row][col].
Rows == 0 .. ROW_COUNT - 1
Cols == 0 .. COL_COUNT - 1
Cells == Rows \X Cols
At(a, cell) == a[cell[1]][cell[2]]

\* keymaps[layer][r][c]
KeyAt(layer, cell) == keymaps[layer + 1][cell[1] + 1][cell[2] + 1]
KeyAt_2L(layer, cell) == keymaps_2L[layer + 1][cell[1] + 1][cell[2] + 1]

\* The output sink's calls.
Press(k)   == [op |-> "press", code |-> k]
Release(k) == [op |-> "release", code |-> k]
ReleaseAll == [op |-> "releaseAll", code |-> Blank]

\* ------------------------------------------------------------------ bounds

\* The largest number of milliseconds between two scans in SpecDebounce.
MaxStep == 3

\* The number of sticky-toggle presses the history modeLog looks back on.
LogLen == 4

\* The cells whose switches are operated (every other cell reads LOW).
FuncCell   == <<1, 6>>   \* '!' / KEY_FUNC / KEY_FUNC / ______
StickyCell == <<2, 0>>   \* KEY_LEFT_ALT / ';' / STICKY / ______
L1Cell     == <<2, 5>>   \* KC_L1 / KC_L1 / KC_L1 / ______
ShiftCell  == <<3, 3>>   \* KEY_LEFT_SHIFT on layers 0-2
CtrlCell   == <<3, 4>>   \* KEY_LEFT_CTRL on layers 0-2

QCell      == <<0, 0>>   \* 'q' / '@' / KEY_F1 / ______

KeyCells      == {FuncCell, StickyCell, L1Cell, ShiftCell, CtrlCell}
DebounceCells == {FuncCell, L1Cell}
HoldCells     == {QCell, FuncCell}

\* The cells of the 2-layer firmware whose switches are operated.
L1Cell_2L  == <<2, 1>>   \* KC_L1 / KC_L1
BCell_2L   == <<2, 2>>   \* 'b' / '1'
CtrlCell_2L == <<3, 2>>  \* KEY_RIGHT_CTRL / KEY_RIGHT_ALT
KeyCells_2L == {L1Cell_2L, BCell_2L, CtrlCell_2L}

\* Milliseconds between two scans: none (scans are much faster than the
\* clock) or just over one debounce window.
KeySteps      == {0, DEBOUNCE_DELAY + 1}

\* The 2-layer firmware's loop() waits a millisecond after every scan.
KeySteps_2L   == {1, DEBOUNCE_DELAY_2L + 1}
DebounceSteps == 0 .. MaxStep

\* ------------------------------------------------------------------- state

VARIABLES
  pc,                 \* "loop": between two calls of scanMatrix(); "action": in its phase 3
  keyState,           \* current stable state
  prevInputState,     \* state from the previous loop (edge detection)
  lastRawState,       \* raw state for debouncing
  sinceDebounce,      \* millis() - lastDebounceTime at the latest sample, saturated
  stickyModeEnabled, stickyL1, stickyFunc, stickyShift, stickyCtrl, stickyAlt,
  led,                \* level written to LED_PIN
  activeL1, activeFunc, activeShift, currentLayer,   \* locals of scanMatrix
  sent,               \* the sink calls made by the latest step, in order
  edge,               \* the cell, direction and code the latest step dispatched
  rawHist,            \* history: each cell's latest sample and how long the samples
                      \* have been the same
  modeLog,            \* history: stickyModeEnabled before each of the last LogLen
                      \* dispatched sticky-toggle presses, oldest first
  latchLog,           \* history: the latest dispatched press, if it was the press
                      \* of a latch key's cell in sticky mode with no other cell
                      \* stable-pressed then or since, and that key's latch
                      \* before it
  keyState_2L,        \* 2-layer firmware: current state
  lastKeyState_2L,    \* 2-layer firmware: previous state (the last reading)
  sinceDebounce_2L,   \* 2-layer firmware: millis() - lastDebounceTime, saturated
  currentLayer_2L,    \* 2-layer firmware: currentLayer
  sent_2L,            \* 2-layer firmware: the sink calls of the latest scan, in order
  pressedAs_2L        \* 2-layer firmware, history: the pairs <<cell, code>> such that
                      \* the cell's latest event was a press that sent press(code)

scanVars   == <<keyState, lastRawState, sinceDebounce, led, activeL1, activeFunc,
                activeShift, currentLayer, rawHist>>
latchVars  == <<stickyL1, stickyFunc, stickyShift, stickyCtrl, stickyAlt>>
stickyVars == <<stickyModeEnabled, stickyL1, stickyFunc, stickyShift, stickyCtrl, stickyAlt>>
vars_2L == <<keyState_2L, lastKeyState_2L, sinceDebounce_2L, currentLayer_2L,
             sent_2L, pressedAs_2L>>
vars == <<pc, keyState, prevInputState, lastRawState, sinceDebounce,
          stickyModeEnabled, stickyL1, stickyFunc, stickyShift, stickyCtrl, stickyAlt,
          led, activeL1, activeFunc, activeShift, currentLayer,
          sent, edge, rawHist, modeLog, latchLog,
          keyState_2L, lastKeyState_2L, sinceDebounce_2L, currentLayer_2L,
          sent_2L, pressedAs_2L>>

Saturated == DEBOUNCE_DELAY + 1
Saturated_2L == DEBOUNCE_DELAY_2L + 1
Min(a, b) == IF a < b THEN a ELSE b

NoEdge == [cell |-> <<0, 0>>, pressed |-> FALSE, code |-> "none"]

\* The cells of the latch keys, by their keys on layer 0: the layer toggle,
\* shift, ctrl and alt (the alt key shares its cell with the sticky toggle of
\* layer 2); and the latch that belongs to each.
LatchKeyCells == {L1Cell, ShiftCell, CtrlCell, StickyCell}
LatchOfCell(cell) ==
  CASE cell = L1Cell -> stickyL1
    [] cell = ShiftCell -> stickyShift
    [] cell = CtrlCell -> stickyCtrl
    [] cell = StickyCell -> stickyAlt

\* No cell but cell is stable-pressed in the matrix state.
OnlyPressed(state, cell) ==
  \A r \in Rows, c \in Cols : state[r][c] => <<r, c>> = cell

NoPress == [armed |-> FALSE, cell |-> <<0, 0>>, was |-> FALSE]

\* setup(): the arrays are cleared, the sticky state is off, and more than a
\* debounce window (two delays of 500 ms) passes before the first scan.  The
\* setup() of the 2-layer firmware does the same, with one delay of 1000 ms.
Init ==
  /\ pc = "loop"
  /\ keyState = [r \in Rows |-> [c \in Cols |-> FALSE]]
  /\ prevInputState = [r \in Rows |-> [c \in Cols |-> FALSE]]
  /\ lastRawState = [r \in Rows |-> [c \in Cols |-> FALSE]]
  /\ sinceDebounce = [r \in Rows |-> [c \in Cols |-> Saturated]]
  /\ stickyModeEnabled = FALSE
  /\ stickyL1 = FALSE /\ stickyFunc = FALSE /\ stickyShift = FALSE
  /\ stickyCtrl = FALSE /\ stickyAlt = FALSE
  /\ led = FALSE
  /\ activeL1 = FALSE /\ activeFunc = FALSE /\ activeShift = FALSE
  /\ currentLayer = 0
  /\ sent = << >>
  /\ edge = NoEdge
  /\ rawHist = [r \in Rows |-> [c \in Cols |-> [val |-> FALSE, held |-> Saturated]]]
  /\ modeLog = << >>
  /\ latchLog = NoPress
  /\ keyState_2L = [r \in Rows |-> [c \in Cols |-> FALSE]]
  /\ lastKeyState_2L = [r \in Rows |-> [c \in Cols |-> FALSE]]
  /\ sinceDebounce_2L = [r \in Rows |-> [c \in Cols |-> Saturated_2L]]
  /\ currentLayer_2L = 0
  /\ sent_2L = << >>
  /\ pressedAs_2L = {}

\* ------------------------------------------------------------------- phase 1

\* Mutant of DebounceElapsed: a changed sample does not restart the window.
DebounceElapsedNoRestart(row, col, reading, dt) ==
  Min(sinceDebounce[row][col] + dt, Saturated)

\* now - lastDebounceTime[row][col] after the "Debounce Logic" assignment:
\* a sample that differs from the last raw state restarts the window.
DebounceElapsed(row, col, reading, dt) ==
  IF reading # lastRawState[row][col]
  THEN 0
  ELSE Min(sinceDebounce[row][col] + dt, Saturated)

\* Mutant of Debounced: a sample is committed as soon as the elapsed time
\* equals DEBOUNCE_DELAY.
DebouncedAtDelay(row, col, reading, dt) ==
  IF DebounceElapsed(row, col, reading, dt) >= DEBOUNCE_DELAY
  THEN (IF reading # keyState[row][col] THEN reading ELSE keyState[row][col])
  ELSE keyState[row][col]

\* Mutant of Debounced: only a LOW sample is ever committed.
DebouncedLowOnly(row, col, reading, dt) ==
  IF DebounceElapsed(row, col, reading, dt) > DEBOUNCE_DELAY /\ ~reading
  THEN (IF reading # keyState[row][col] THEN reading ELSE keyState[row][col])
  ELSE keyState[row][col]

\* keyState[row][col] after the sample.
Debounced(row, col, reading, dt) ==
  IF DebounceElapsed(row, col, reading, dt) > DEBOUNCE_DELAY
  THEN (IF reading # keyState[row][col] THEN reading ELSE keyState[row][col])
  ELSE keyState[row][col]

\* ------------------------------------------------------------------- phase 2

\* Mutant of LayerOf: the two overrides in the other order, so shift wins.
LayerOfShiftWins(l1, func, shift) ==
  LET base   == 0
      sym    == IF l1 THEN 1 ELSE base
      funced == IF l1 /\ func THEN 2 ELSE sym
  IN  IF l1 /\ shift THEN 3 ELSE funced

\* int currentLayer = 0; if (activeL1) { currentLayer = 1;
\*   if (activeShift) currentLayer = 3; if (activeFunc) currentLayer = 2; }
LayerOf(l1, func, shift) ==
  LET base    == 0
      sym     == IF l1 THEN 1 ELSE base
      shifted == IF l1 /\ shift THEN 3 ELSE sym
  IN  IF l1 /\ func THEN 2 ELSE shifted

\* ------------------------------------------------------------------- phase 3

\* The loops of phase 3 skip every cell whose stable state equals its
\* dispatched state.  SomePending: they do not skip every cell; FirstPending:
\* the first cell, row by row and column by column, that they do not skip.
SomePending == keyState # prevInputState
FirstPending ==
  LET r == CHOOSE i \in Rows :
             /\ keyState[i] # prevInputState[i]
             /\ \A j \in 0 .. i - 1 : keyState[j] = prevInputState[j]
      c == CHOOSE i \in Cols :
             /\ keyState[r][i] # prevInputState[r][i]
             /\ \A j \in 0 .. i - 1 : keyState[r][j] = prevInputState[r][j]
  IN  <<r, c>>

\* Mutant of StickyToggled: the key enables the mode instead of toggling it.
StickyEnabled(enabled) == TRUE

\* stickyModeEnabled = !stickyModeEnabled
StickyToggled(enabled) == ~enabled

\* Mutant of ResetOnDisable: the latches are not reset.
KeptOnDisable(enabled, latch) == latch

\* A latch after "if (!stickyModeEnabled) stickyL1 = ... = stickyAlt = false".
ResetOnDisable(enabled, latch) == IF ~enabled THEN FALSE ELSE latch

\* Mutant of Toggled: the latch flips whenever its key is handled.
ToggledAlways(cond, latch) == ~latch

\* A latch after "if (cond) latch = !latch".
Toggled(cond, latch) == IF cond THEN ~latch ELSE latch

\* Mutant of PassThrough: the release edge is sent as a press too.
PassThroughPress(k, down) == << Press(k) >>

\* Normal mode: "if (pressed) Keyboard.press(code); else Keyboard.release(code);"
PassThrough(k, down) == IF down THEN << Press(k) >> ELSE << Release(k) >>

\* Mutant of StickyModifierPresses: ctrl is pressed before shift.
StickyModifierPressesCtrlFirst ==
     (IF stickyCtrl  THEN << Press(KEY_LEFT_CTRL) >>  ELSE << >>)
  \o (IF stickyShift THEN << Press(KEY_LEFT_SHIFT) >> ELSE << >>)
  \o (IF stickyAlt   THEN << Press(KEY_LEFT_ALT) >>   ELSE << >>)

\* "Apply sticky modifiers just before key press"
StickyModifierPresses ==
     (IF stickyShift THEN << Press(KEY_LEFT_SHIFT) >> ELSE << >>)
  \o (IF stickyCtrl  THEN << Press(KEY_LEFT_CTRL) >>  ELSE << >>)
  \o (IF stickyAlt   THEN << Press(KEY_LEFT_ALT) >>   ELSE << >>)

\* What every iteration of the action phase that is not skipped does: the
\* cell's history is updated and the iteration's sink calls are made; the
\* matrix is left alone.
Consume(cell, down, k, events) ==
  /\ pc' = "action"
  /\ prevInputState' = [prevInputState EXCEPT ![cell[1]][cell[2]] = down]
  /\ sent' = events
  /\ edge' = [cell |-> cell, pressed |-> down, code |-> k]
  /\ latchLog' =
       (IF down
        THEN (IF /\ stickyModeEnabled /\ k # STICKY
                 /\ cell \in LatchKeyCells /\ OnlyPressed(keyState, cell)
              THEN [armed |-> TRUE, cell |-> cell, was |-> LatchOfCell(cell)]
              ELSE NoPress)
        ELSE latchLog)
  /\ UNCHANGED scanVars
  /\ UNCHANGED vars_2L

\* The history modeLog keeps the last LogLen entries.
Logged(s) == IF Len(s) > LogLen THEN Tail(s) ELSE s

\* ------------------------------------------------------------------ actions

\* Mutant of Scan: the layer is resolved from the stable matrix as the
\* previous scan left it.
ScanStaleLayer(reading, dt) ==
  /\ pc = "loop"
  /\ pc' = "action"
  /\ keyState' = [r \in Rows |-> [c \in Cols |-> Debounced(r, c, reading[r][c], dt)]]
  /\ sinceDebounce' =
       [r \in Rows |-> [c \in Cols |-> DebounceElapsed(r, c, reading[r][c], dt)]]
  /\ lastRawState' = reading
  /\ led' = (\E r \in Rows, c \in Cols : keyState'[r][c])
  /\ activeL1' = (stickyL1 \/ keyState[2][5])
  /\ activeFunc' = (stickyFunc \/ keyState[1][6])
  /\ activeShift' = (stickyShift \/ keyState[3][2])
  /\ stickyCtrl' = (IF keyState'[3][3] /\ stickyModeEnabled THEN TRUE ELSE stickyCtrl)
  /\ currentLayer' = LayerOf(activeL1', activeFunc', activeShift')
  /\ rawHist' = [r \in Rows |-> [c \in Cols |->
                   IF reading[r][c] # rawHist[r][c].val
                   THEN [val |-> reading[r][c], held |-> 0]
                   ELSE [val |-> rawHist[r][c].val,
                         held |-> Min(rawHist[r][c].held + dt, Saturated)]]]
  /\ UNCHANGED <<prevInputState, stickyModeEnabled, stickyL1, stickyFunc,
                 stickyShift, stickyAlt, sent, edge, modeLog>>
  /\ latchLog' = (IF latchLog.armed /\ ~OnlyPressed(keyState', latchLog.cell)
                   THEN NoPress ELSE latchLog)
  /\ UNCHANGED vars_2L

\* Mutant of Scan: the ctrl latch is set from cell [3][3] in normal mode too.
ScanCtrlUnguarded(reading, dt) ==
  /\ pc = "loop"
  /\ pc' = "action"
  /\ keyState' = [r \in Rows |-> [c \in Cols |-> Debounced(r, c, reading[r][c], dt)]]
  /\ sinceDebounce' =
       [r \in Rows |-> [c \in Cols |-> DebounceElapsed(r, c, reading[r][c], dt)]]
  /\ lastRawState' = reading
  /\ led' = (\E r \in Rows, c \in Cols : keyState'[r][c])
  /\ activeL1' = (stickyL1 \/ keyState'[2][5])
  /\ activeFunc' = (stickyFunc \/ keyState'[1][6])
  /\ activeShift' = (stickyShift \/ keyState'[3][2])
  /\ stickyCtrl' = (IF keyState'[3][3] THEN TRUE ELSE stickyCtrl)
  /\ currentLayer' = LayerOf(activeL1', activeFunc', activeShift')
  /\ rawHist' = [r \in Rows |-> [c \in Cols |->
                   IF reading[r][c] # rawHist[r][c].val
                   THEN [val |-> reading[r][c], held |-> 0]
                   ELSE [val |-> rawHist[r][c].val,
                         held |-> Min(rawHist[r][c].held + dt, Saturated)]]]
  /\ UNCHANGED <<prevInputState, stickyModeEnabled, stickyL1, stickyFunc,
                 stickyShift, stickyAlt, sent, edge, modeLog>>
  /\ latchLog' = (IF latchLog.armed /\ ~OnlyPressed(keyState', latchLog.cell)
                   THEN NoPress ELSE latchLog)
  /\ UNCHANGED vars_2L

\* Phases 1 and 2 of scanMatrix(): every cell is sampled and debounced, the
\* LED is written and the layer of this scan is resolved.  reading[r][c] is
\* what digitalRead() returns for the cell, dt the milliseconds since the
\* previous scan.
Scan(reading, dt) ==
  /\ pc = "loop"
  /\ pc' = "action"
  /\ keyState' = [r \in Rows |-> [c \in Cols |-> Debounced(r, c, reading[r][c], dt)]]
  /\ sinceDebounce' =
       [r \in Rows |-> [c \in Cols |-> DebounceElapsed(r, c, reading[r][c], dt)]]
  /\ lastRawState' = reading
  /\ led' = (\E r \in Rows, c \in Cols : keyState'[r][c])
  /\ activeL1' = (stickyL1 \/ keyState'[2][5])
  /\ activeFunc' = (stickyFunc \/ keyState'[1][6])
  /\ activeShift' = (stickyShift \/ keyState'[3][2])
  /\ stickyCtrl' = (IF keyState'[3][3] /\ stickyModeEnabled THEN TRUE ELSE stickyCtrl)
  /\ currentLayer' = LayerOf(activeL1', activeFunc', activeShift')
  /\ rawHist' = [r \in Rows |-> [c \in Cols |->
                   IF reading[r][c] # rawHist[r][c].val
                   THEN [val |-> reading[r][c], held |-> 0]
                   ELSE [val |-> rawHist[r][c].val,
                         held |-> Min(rawHist[r][c].held + dt, Saturated)]]]
  /\ UNCHANGED <<prevInputState, stickyModeEnabled, stickyL1, stickyFunc,
                 stickyShift, stickyAlt, sent, edge, modeLog>>
  /\ latchLog' = (IF latchLog.armed /\ ~OnlyPressed(keyState', latchLog.cell)
                   THEN NoPress ELSE latchLog)
  /\ UNCHANGED vars_2L

\* Mutant of DispatchSticky: every press of the key calls releaseAll(), and
\* its release toggles the mode too.
DispatchStickyEveryEdge(cell, pressed, code) ==
  /\ code = STICKY
  /\ stickyModeEnabled' = StickyToggled(stickyModeEnabled)
  /\ stickyL1' = ResetOnDisable(stickyModeEnabled', stickyL1)
  /\ stickyFunc' = ResetOnDisable(stickyModeEnabled', stickyFunc)
  /\ stickyShift' = ResetOnDisable(stickyModeEnabled', stickyShift)
  /\ stickyCtrl' = ResetOnDisable(stickyModeEnabled', stickyCtrl)
  /\ stickyAlt' = ResetOnDisable(stickyModeEnabled', stickyAlt)
  /\ Consume(cell, pressed, code, << ReleaseAll >>)
  /\ modeLog' = (IF pressed THEN Logged(Append(modeLog, stickyModeEnabled)) ELSE modeLog)

\* code == STICKY
DispatchSticky(cell, pressed, code) ==
  /\ code = STICKY
  /\ IF pressed
     THEN /\ stickyModeEnabled' = StickyToggled(stickyModeEnabled)
          /\ stickyL1' = ResetOnDisable(stickyModeEnabled', stickyL1)
          /\ stickyFunc' = ResetOnDisable(stickyModeEnabled', stickyFunc)
          /\ stickyShift' = ResetOnDisable(stickyModeEnabled', stickyShift)
          /\ stickyCtrl' = ResetOnDisable(stickyModeEnabled', stickyCtrl)
          /\ stickyAlt' = ResetOnDisable(stickyModeEnabled', stickyAlt)
          /\ Consume(cell, pressed, code,
                     IF stickyModeEnabled THEN << ReleaseAll >> ELSE << >>)
          /\ modeLog' = Logged(Append(modeLog, stickyModeEnabled))
     ELSE /\ Consume(cell, pressed, code, << >>)
          /\ UNCHANGED <<stickyVars, modeLog>>

\* Mutant of DispatchL1: the edge of the layer key is also forwarded to the
\* sink, as the edge of a modifier is in normal mode.
DispatchL1Forwarded(cell, pressed, code) ==
  /\ code = KC_L1
  /\ stickyL1' = Toggled(stickyModeEnabled /\ pressed, stickyL1)
  /\ Consume(cell, pressed, code, PassThrough(code, pressed))
  /\ UNCHANGED <<stickyModeEnabled, stickyFunc, stickyShift, stickyCtrl, stickyAlt, modeLog>>

\* code == KC_L1
DispatchL1(cell, pressed, code) ==
  /\ code = KC_L1
  /\ stickyL1' = Toggled(stickyModeEnabled /\ pressed, stickyL1)
  /\ Consume(cell, pressed, code, << >>)
  /\ UNCHANGED <<stickyModeEnabled, stickyFunc, stickyShift, stickyCtrl, stickyAlt, modeLog>>

\* code == KEY_FUNC
DispatchFunc(cell, pressed, code) ==
  /\ code = KEY_FUNC
  /\ stickyFunc' = Toggled(stickyModeEnabled /\ pressed, stickyFunc)
  /\ Consume(cell, pressed, code, << >>)
  /\ UNCHANGED <<stickyModeEnabled, stickyL1, stickyShift, stickyCtrl, stickyAlt, modeLog>>

\* code == KEY_LEFT_SHIFT || code == KEY_LEFT_CTRL || code == KEY_LEFT_ALT
DispatchModifier(cell, pressed, code) ==
  /\ code \in {KEY_LEFT_SHIFT, KEY_LEFT_CTRL, KEY_LEFT_ALT}
  /\ IF stickyModeEnabled
     THEN /\ stickyShift' = Toggled(pressed /\ code = KEY_LEFT_SHIFT, stickyShift)
          /\ stickyCtrl' = Toggled(pressed /\ code = KEY_LEFT_CTRL, stickyCtrl)
          /\ stickyAlt' = Toggled(pressed /\ code = KEY_LEFT_ALT, stickyAlt)
          /\ Consume(cell, pressed, code, << >>)
     ELSE /\ Consume(cell, pressed, code, PassThrough(code, pressed))
          /\ UNCHANGED <<stickyShift, stickyCtrl, stickyAlt>>
  /\ UNCHANGED <<stickyModeEnabled, stickyL1, stickyFunc, modeLog>>

\* Mutant of DispatchStandard: ______ is handled like any standard key.
DispatchStandardSendsBlank(cell, pressed, code) ==
  /\ code \notin {STICKY, KC_L1, KEY_FUNC, KEY_LEFT_SHIFT, KEY_LEFT_CTRL, KEY_LEFT_ALT}
  /\ Consume(cell, pressed, code,
             IF pressed
             THEN StickyModifierPresses \o << Press(code) >>
             ELSE << Release(code) >>)
  /\ UNCHANGED <<stickyVars, modeLog>>

\* Mutant of DispatchStandard: the release edge of a standard key also
\* releases the modifiers whose latches are set.
DispatchStandardReleasesModifiers(cell, pressed, code) ==
  /\ code \notin {STICKY, KC_L1, KEY_FUNC, KEY_LEFT_SHIFT, KEY_LEFT_CTRL, KEY_LEFT_ALT}
  /\ Consume(cell, pressed, code,
             IF code # Blank
             THEN (IF pressed
                   THEN StickyModifierPresses \o << Press(code) >>
                   ELSE << Release(code) >>
                        \o (IF stickyShift THEN << Release(KEY_LEFT_SHIFT) >> ELSE << >>)
                        \o (IF stickyCtrl  THEN << Release(KEY_LEFT_CTRL) >>  ELSE << >>)
                        \o (IF stickyAlt   THEN << Release(KEY_LEFT_ALT) >>   ELSE << >>))
             ELSE << >>)
  /\ UNCHANGED <<stickyVars, modeLog>>

\* Every other code: a standard key, or ______ (nothing is sent).
DispatchStandard(cell, pressed, code) ==
  /\ code \notin {STICKY, KC_L1, KEY_FUNC, KEY_LEFT_SHIFT, KEY_LEFT_CTRL, KEY_LEFT_ALT}
  /\ Consume(cell, pressed, code,
             IF code # Blank
             THEN (IF pressed
                   THEN StickyModifierPresses \o << Press(code) >>
                   ELSE << Release(code) >>)
             ELSE << >>)
  /\ UNCHANGED <<stickyVars, modeLog>>

\* One iteration of the loops of phase 3 that is not skipped: the first cell,
\* in row-major order, whose stable state differs from its dispatched state.
Dispatch ==
  /\ pc = "action"
  /\ SomePending
  /\ LET cell == FirstPending
         pressed == At(keyState, cell)
         code == KeyAt(currentLayer, cell)
     IN  \/ DispatchSticky(cell, pressed, code)
         \/ DispatchL1(cell, pressed, code)
         \/ DispatchFunc(cell, pressed, code)
         \/ DispatchModifier(cell, pressed, code)
         \/ DispatchStandard(cell, pressed, code)

\* The loops of phase 3 end and scanMatrix() returns to loop(): its locals
\* go out of scope (the model sets them back to their initial values).
Return ==
  /\ pc = "action"
  /\ ~SomePending
  /\ pc' = "loop"
  /\ activeL1' = FALSE /\ activeFunc' = FALSE /\ activeShift' = FALSE
  /\ currentLayer' = 0
  /\ sent' = << >>
  /\ edge' = NoEdge
  /\ UNCHANGED <<keyState, lastRawState, sinceDebounce, led, rawHist,
                 prevInputState, stickyVars, modeLog, latchLog>>
  /\ UNCHANGED vars_2L

\* ------------------------------------------------------- 2-layer firmware

\* Mutant of LayerAtScanStart: the layer is taken from keyState as the scan's
\* own sampling leaves it.
LayerAfterSampling == IF keyState_2L'[2][1] THEN 1 ELSE 0

\* "First Pass: Determine Active Layer": currentLayer as scanMatrix() sets it
\* before its sampling loop, from the keyState the previous scan left.
LayerAtScanStart == IF keyState_2L[2][1] THEN 1 ELSE 0

\* now - lastDebounceTime[row][col] after the "Debounce Check" assignment.
DebounceElapsed_2L(row, col, reading, dt) ==
  IF reading # lastKeyState_2L[row][col]
  THEN 0
  ELSE Min(sinceDebounce_2L[row][col] + dt, Saturated_2L)

\* keyState[row][col] after the sample.
Debounced_2L(row, col, reading, dt) ==
  IF DebounceElapsed_2L(row, col, reading, dt) > DEBOUNCE_DELAY_2L
  THEN (IF reading # keyState_2L[row][col] THEN reading ELSE keyState_2L[row][col])
  ELSE keyState_2L[row][col]

\* The "KEY EVENT HANDLER" for a cell whose keyState has just changed: the
\* layer key and ______ send nothing.
KeyEvent_2L(keycode, pressed) ==
  IF keycode = KC_L1 \/ keycode = Blank
  THEN << >>
  ELSE (IF pressed THEN << Press(keycode) >> ELSE << Release(keycode) >>)

\* The sink calls of one scan, from the i-th cell on in the order of the
\* loops (columns outside, rows inside): a cell whose keyState the scan
\* changes, from was to now, makes the call of its keycode on layer.
RECURSIVE Events_2L(_, _, _, _)
Events_2L(i, layer, was, now) ==
  IF i = ROW_COUNT * COL_COUNT
  THEN << >>
  ELSE LET col == i \div ROW_COUNT
           row == i % ROW_COUNT
       IN  (IF now[row][col] # was[row][col]
            THEN KeyEvent_2L(KeyAt_2L(layer, <<row, col>>), now[row][col])
            ELSE << >>)
           \o Events_2L(i + 1, layer, was, now)

\* scanMatrix() of the 2-layer firmware: the layer is set, then every cell is
\* sampled, debounced and, when its state changes, handled.
scanMatrix_2L(reading, dt) ==
  /\ keyState_2L' =
       [r \in Rows |-> [c \in Cols |-> Debounced_2L(r, c, reading[r][c], dt)]]
  /\ currentLayer_2L' = LayerAtScanStart
  /\ sinceDebounce_2L' =
       [r \in Rows |-> [c \in Cols |-> DebounceElapsed_2L(r, c, reading[r][c], dt)]]
  /\ lastKeyState_2L' = reading
  /\ sent_2L' = Events_2L(0, currentLayer_2L', keyState_2L, keyState_2L')
  /\ pressedAs_2L' =
       {p \in pressedAs_2L : At(keyState_2L', p[1]) = At(keyState_2L, p[1])}
       \cup {<<cell, KeyAt_2L(currentLayer_2L', cell)>> :
               cell \in {x \in Cells : /\ At(keyState_2L', x) /\ ~At(keyState_2L, x)
                                       /\ KeyAt_2L(currentLayer_2L', x) \notin {KC_L1, Blank}}}
  /\ UNCHANGED <<pc, keyState, prevInputState, lastRawState, sinceDebounce,
                 stickyVars, led, activeL1, activeFunc, activeShift, currentLayer,
                 sent, edge, rawHist, modeLog, latchLog>>

\* The readings a scan of the 2-layer firmware can take: one switch at most
\* changes between two scans, and only once its previous change has been
\* committed.
SettledReadings_2L(cells) ==
  {lastKeyState_2L} \cup
  {[lastKeyState_2L EXCEPT ![c[1]][c[2]] = ~lastKeyState_2L[c[1]][c[2]]] :
     c \in {x \in cells : At(lastKeyState_2L, x) = At(keyState_2L, x)}}

\* loop() of the 2-layer firmware.
Next_2L ==
  \E reading \in SettledReadings_2L(KeyCells_2L), dt \in KeySteps_2L :
    scanMatrix_2L(reading, dt)

\* The readings a scan can take: the switches are operated one at a time,
\* so at most one cell of cells reads differently from the scan before
\* (switches that change together are sampled by successive scans of the
\* same millisecond).  Every other cell keeps its reading; a cell that is
\* never operated reads LOW, its row being pulled down.
Readings(cells) ==
  {lastRawState} \cup
  {[lastRawState EXCEPT ![c[1]][c[2]] = ~lastRawState[c[1]][c[2]]] : c \in cells}

\* The readings of switches that do not bounce: a switch changes only once
\* its previous change has been committed to keyState.
SettledReadings(cells) ==
  Readings({c \in cells : At(lastRawState, c) = At(keyState, c)})

\* loop(): scans follow one another; the switches in cells and the clock
\* steps in steps are the environment.
Next ==
  \/ \E reading \in SettledReadings(KeyCells), dt \in KeySteps : Scan(reading, dt)
  \/ Dispatch
  \/ Return

NextDebounce ==
  \/ \E reading \in Readings(DebounceCells), dt \in DebounceSteps : Scan(reading, dt)
  \/ Dispatch
  \/ Return

\* Two character keys of layer 0 are operated and may bounce; no layer key
\* is, so every scan resolves layer 0.
NextHold ==
  \/ \E reading \in Readings(HoldCells), dt \in DebounceSteps : Scan(reading, dt)
  \/ Dispatch
  \/ Return

\* A scan that samples at least a millisecond after the previous one.
ScanLater ==
  \E reading \in Readings(HoldCells), dt \in DebounceSteps \ {0} : Scan(reading, dt)

Spec == Init /\ [][Next]_vars

SpecDebounce == Init /\ [][NextDebounce]_vars

Spec_2L == Init /\ [][Next_2L]_vars

\* loop() never stops calling scanMatrix(), a call runs to its end, and
\* millis() keeps advancing: again and again a scan samples later than the
\* one before.
SpecHold ==
  /\ Init /\ [][NextHold]_vars
  /\ WF_vars(Dispatch) /\ WF_vars(Return) /\ SF_vars(ScanLater)

\* ------------------------------------------------------------------ claims

\* The iteration of phase 3 that the next step runs, read in the state before
\* it: a step taken while Dispatching is a Dispatch step.
Dispatching == pc = "action" /\ SomePending
EdgeCell    == FirstPending
EdgePressed == At(keyState, FirstPending)
EdgeCode    == KeyAt(currentLayer, FirstPending)

NoLatch == ~stickyL1 /\ ~stickyFunc /\ ~stickyShift /\ ~stickyCtrl /\ ~stickyAlt

\* C1: a cell's stable value changes in a scan only if the samples of the cell
\* have all had the new value since the raw signal last changed, and that
\* change lies at least DEBOUNCE_DELAY milliseconds back; so a signal that
\* keeps changing faster than that never changes the stable value.
C1_StableOnlyAfterHold ==
  [][\A r \in Rows, c \in Cols :
       keyState'[r][c] # keyState[r][c] =>
         /\ rawHist'[r][c].val = keyState'[r][c]
         /\ rawHist'[r][c].held >= DEBOUNCE_DELAY]_vars

\* A press of cell [1][6] has just been committed, its samples having stayed
\* HIGH for the debounce window, while cell [2][5] reads HIGH for less than
\* the window and is not committed.
C1_Witness ==
  /\ pc = "action"
  /\ keyState[1][6] /\ ~prevInputState[1][6]
  /\ rawHist[1][6].val /\ rawHist[1][6].held >= DEBOUNCE_DELAY
  /\ lastRawState[2][5] /\ ~keyState[2][5] /\ sinceDebounce[2][5] < DEBOUNCE_DELAY

\* C2: each change of a cell's stable value is dispatched exactly once, in
\* the tick of the change (only the action phase calls the sink, it handles
\* exactly the cells whose stable value differs from the dispatched one, and
\* none is left when scanMatrix() returns); and a tick in which every cell's
\* stable value equals its dispatched value makes no sink call and changes
\* nothing in the sticky state, however long keys are held.
C2_OneEventPerChange ==
  [][/\ sent' # << >> => Dispatching
     /\ prevInputState' # prevInputState =>
          /\ Dispatching
          /\ prevInputState' =
               [prevInputState EXCEPT ![EdgeCell[1]][EdgeCell[2]] = EdgePressed]
     /\ pc' = "loop" => prevInputState' = keyState'
     /\ (pc = "loop" /\ keyState' = prevInputState) =>
          (stickyVars' = stickyVars /\ sent' = << >>)]_vars

\* The part of C2 that is about the dispatcher alone: the action phase
\* handles exactly the cells whose stable value changed, once each, before
\* scanMatrix() returns, and only it calls the sink.
C2_DispatchOncePerChange ==
  [][/\ sent' # << >> => Dispatching
     /\ prevInputState' # prevInputState =>
          /\ Dispatching
          /\ prevInputState' =
               [prevInputState EXCEPT ![EdgeCell[1]][EdgeCell[2]] = EdgePressed]
     /\ pc' = "loop" => prevInputState' = keyState']_vars

\* C3: a sticky-toggle press dispatched while the mode is enabled disables
\* the mode, clears all five latches and sends exactly one releaseAll(), in
\* that step.
C3_DisableClearsAndReleases ==
  [][(Dispatching /\ EdgeCode = STICKY /\ EdgePressed /\ stickyModeEnabled) =>
       /\ ~stickyModeEnabled'
       /\ NoLatch'
       /\ sent' = << ReleaseAll >>]_vars

\* The mode has just been disabled by the sticky-toggle key, one press after
\* it was enabled.
C3_Witness ==
  /\ edge.code = STICKY /\ edge.pressed
  /\ ~stickyModeEnabled
  /\ sent = << ReleaseAll >>
  /\ Len(modeLog) >= 2

\* C4: immediately after the last of an even, non-zero number n of dispatched
\* sticky-toggle presses, stickyModeEnabled has the value it had before the
\* first of them and all five latches are false (n up to LogLen).
C4_EvenTogglesRestore ==
  (edge.code = STICKY /\ edge.pressed) =>
    \A n \in 1 .. Len(modeLog) :
      n % 2 = 0 =>
        /\ stickyModeEnabled = modeLog[Len(modeLog) - n + 1]
        /\ NoLatch

\* The fourth sticky-toggle press has just been dispatched, with the mode
\* enabled before the first.
C4_Witness ==
  /\ edge.code = STICKY /\ edge.pressed
  /\ Len(modeLog) >= 4
  /\ modeLog[Len(modeLog) - 3]
  /\ stickyModeEnabled

\* C5: the layer resolver returns 0 when activeL1 is false, 2 when activeL1
\* and activeFunc, 3 when activeL1 and activeShift and not activeFunc, and 1
\* when only activeL1; the layer is always in 0..3.
C5_LayerTable ==
  pc = "action" =>
    /\ currentLayer \in 0 .. 3
    /\ ~activeL1 => currentLayer = 0
    /\ (activeL1 /\ activeFunc) => currentLayer = 2
    /\ (activeL1 /\ activeShift /\ ~activeFunc) => currentLayer = 3
    /\ (activeL1 /\ ~activeShift /\ ~activeFunc) => currentLayer = 1

\* Func and shift are both active with layer 1: func wins.
C5_Witness ==
  pc = "action" /\ activeL1 /\ activeFunc /\ activeShift /\ currentLayer = 2

\* The keycodes of the three standard modifiers, in the order in which the
\* claims list them, and the position of each in that order.
Modifiers == {KEY_LEFT_SHIFT, KEY_LEFT_CTRL, KEY_LEFT_ALT}
Rank(k) == CASE k = KEY_LEFT_SHIFT -> 1 [] k = KEY_LEFT_CTRL -> 2 [] k = KEY_LEFT_ALT -> 3

\* The cells that carry the shift modifier on some layer of the keymap.
ShiftModifierCells ==
  {cell \in Cells : \E layer \in 0 .. 3 : KeyAt(layer, cell) = KEY_LEFT_SHIFT}

\* C6: the activeShift a scan computes is true exactly when the shift latch is
\* set or a cell that carries the shift modifier in the keymap is
\* stable-pressed; so a scan with sticky mode off, the layer-toggle cell and
\* the shift-modifier cell stable-pressed and func not active resolves
\* layer 3.
C6_ShiftCellActivatesShift ==
  [][pc = "loop" =>
       /\ activeShift' = (stickyShift' \/ \E cell \in ShiftModifierCells : At(keyState', cell))
       /\ (/\ ~stickyModeEnabled'
           /\ keyState'[2][5]
           /\ \E cell \in ShiftModifierCells : At(keyState', cell)
           /\ ~activeFunc') => currentLayer' = 3]_vars

\* C7: in sticky mode a dispatched press edge whose code is KC_L1, KEY_FUNC
\* or a standard modifier flips the latch of that key and sends nothing; the
\* release edge of such a key sends nothing and changes nothing in the sticky
\* state.
C7_StickyKeysToggleLatch ==
  [][(Dispatching /\ stickyModeEnabled /\ EdgeCode \in {KC_L1, KEY_FUNC} \cup Modifiers) =>
       /\ sent' = << >>
       /\ IF EdgePressed
          THEN /\ EdgeCode = KC_L1 => stickyL1' = ~stickyL1
               /\ EdgeCode = KEY_FUNC => stickyFunc' = ~stickyFunc
               /\ EdgeCode = KEY_LEFT_SHIFT => stickyShift' = ~stickyShift
               /\ EdgeCode = KEY_LEFT_CTRL => stickyCtrl' = ~stickyCtrl
               /\ EdgeCode = KEY_LEFT_ALT => stickyAlt' = ~stickyAlt
          ELSE stickyVars' = stickyVars]_vars

\* In sticky mode the press of the alt key has just set the alt latch, and
\* nothing was sent.
C7_Witness ==
  /\ edge.code = KEY_LEFT_ALT /\ edge.pressed
  /\ stickyModeEnabled /\ stickyAlt
  /\ sent = << >>

\* C8: a latch changes only in the dispatch of a press edge of its own key in
\* sticky mode, or in the clear-all of the dispatch that disables sticky
\* mode; a key that is merely held changes no latch, and no key changes
\* another key's latch.
C8_LatchChangesOnlyByOwnKey ==
  [][LET own(k) == Dispatching /\ stickyModeEnabled /\ EdgePressed /\ EdgeCode = k
         clear  == Dispatching /\ stickyModeEnabled /\ EdgePressed /\ EdgeCode = STICKY
     IN  /\ stickyL1' # stickyL1 => (own(KC_L1) \/ clear)
         /\ stickyFunc' # stickyFunc => (own(KEY_FUNC) \/ clear)
         /\ stickyShift' # stickyShift => (own(KEY_LEFT_SHIFT) \/ clear)
         /\ stickyCtrl' # stickyCtrl => (own(KEY_LEFT_CTRL) \/ clear)
         /\ stickyAlt' # stickyAlt => (own(KEY_LEFT_ALT) \/ clear)]_vars

\* C9: the press edge of a character key sends the presses of the set
\* latches among shift, ctrl and alt, in that order and each once, and then
\* the press of the character: with the shift latch the only one set,
\* press(shift) then press(character) and nothing else.  Its release edge
\* sends release(character) and nothing else.
C9_InjectedModifiersThenKey ==
  [][(Dispatching /\ EdgeCode \notin {STICKY, KC_L1, KEY_FUNC, Blank} \cup Modifiers) =>
       IF EdgePressed
       THEN LET n == Len(sent')
            IN  /\ n >= 1
                /\ sent'[n] = Press(EdgeCode)
                /\ \A i \in 1 .. n - 1 :
                     sent'[i].op = "press" /\ sent'[i].code \in Modifiers
                /\ \A i, j \in 1 .. n - 1 :
                     i < j => Rank(sent'[i].code) < Rank(sent'[j].code)
                /\ stickyShift <=> \E i \in 1 .. n - 1 : sent'[i].code = KEY_LEFT_SHIFT
                /\ stickyCtrl <=> \E i \in 1 .. n - 1 : sent'[i].code = KEY_LEFT_CTRL
                /\ stickyAlt <=> \E i \in 1 .. n - 1 : sent'[i].code = KEY_LEFT_ALT
                /\ (stickyModeEnabled /\ stickyShift /\ ~stickyCtrl /\ ~stickyAlt) =>
                     sent' = << Press(KEY_LEFT_SHIFT), Press(EdgeCode) >>
       ELSE sent' = << Release(EdgeCode) >>]_vars

\* In sticky mode, with the shift latch the only modifier latch set, the
\* press of '!' has just sent press(shift) and press('!').
C9_Witness ==
  /\ edge.code = "!" /\ edge.pressed
  /\ stickyModeEnabled /\ stickyShift /\ ~stickyCtrl /\ ~stickyAlt
  /\ sent = << Press(KEY_LEFT_SHIFT), Press("!") >>

\* C10: in normal mode a dispatched edge whose code is a standard modifier
\* sends exactly one event, press(code) on a press edge and release(code) on
\* a release edge, and leaves every latch as it was.
C10_NormalModePassThrough ==
  [][(Dispatching /\ ~stickyModeEnabled /\ EdgeCode \in Modifiers) =>
       /\ sent' = << IF EdgePressed THEN Press(EdgeCode) ELSE Release(EdgeCode) >>
       /\ latchVars' = latchVars]_vars

\* In normal mode the release of the ctrl key has just been passed through.
C10_Witness ==
  /\ edge.code = KEY_LEFT_CTRL /\ ~edge.pressed
  /\ ~stickyModeEnabled
  /\ sent = << Release(KEY_LEFT_CTRL) >>

\* C11: no press or release sent to the sink carries the code of the layer
\* toggle, the func toggle or the sticky toggle, in any mode and on any
\* layer (sent holds the calls of the latest step, so this covers every call
\* ever made); in particular none is sent for the sticky toggle and the two
\* presses of the layer toggle that follow it.
C11_ToggleCodesNeverSent ==
  \A i \in 1 .. Len(sent) : sent[i].code \notin {KC_L1, KEY_FUNC, STICKY}

\* After one press of the sticky toggle (mode off to on) a press of the layer
\* toggle has just cleared the layer-1 latch that an earlier press had set,
\* and nothing was sent.
C11_Witness ==
  /\ edge.code = KC_L1 /\ edge.pressed
  /\ modeLog = << FALSE >>
  /\ stickyModeEnabled /\ ~stickyL1
  /\ sent = << >>

\* C12: an injected modifier is not released before the releaseAll() that
\* disabling sticky mode sends.  A step injects a modifier only in sticky
\* mode and leaves the mode on; no step taken in sticky mode sends a release
\* of shift, ctrl or alt; the release edge of a character key sends the
\* release of the character alone; and the only step that leaves sticky mode
\* is the one that sends releaseAll().
C12_InjectedModifiersNotReleased ==
  [][/\ (\E i \in 1 .. Len(sent') - 1 : sent'[i].code \in Modifiers) =>
          (stickyModeEnabled /\ stickyModeEnabled')
     /\ stickyModeEnabled =>
          \A i \in 1 .. Len(sent') :
            ~(sent'[i].op = "release" /\ sent'[i].code \in Modifiers)
     /\ (/\ Dispatching /\ ~EdgePressed
         /\ EdgeCode \notin {STICKY, KC_L1, KEY_FUNC, Blank} \cup Modifiers) =>
          sent' = << Release(EdgeCode) >>
     /\ (stickyModeEnabled /\ ~stickyModeEnabled') => sent' = << ReleaseAll >>]_vars

\* In sticky mode, with the shift and ctrl latches set, the release of '!'
\* has just sent release('!') and nothing else.
C12_Witness ==
  /\ edge.code = "!" /\ ~edge.pressed
  /\ stickyModeEnabled /\ stickyShift /\ stickyCtrl
  /\ sent = << Release("!") >>

\* C13: the level written to the LED and the layer used by a tick's action
\* phase are computed from the stable matrix as that tick's sampling and
\* debounce leave it: the LED is on exactly when some cell is stable-pressed,
\* the layer is resolved by the scan from its own keyState and the latches,
\* it stays the same through the action phase of the tick, in which the
\* stable matrix does not change, and it is not kept when scanMatrix()
\* returns.
C13_SameTickLedAndLayer ==
  [][/\ led' = (\E r \in Rows, c \in Cols : keyState'[r][c])
     /\ pc = "loop" =>
          currentLayer' = LayerOf(stickyL1 \/ keyState'[2][5],
                                  stickyFunc \/ keyState'[1][6],
                                  stickyShift \/ keyState'[3][2])
     /\ (pc = "action" /\ pc' = "action") =>
          (currentLayer' = currentLayer /\ keyState' = keyState)
     /\ pc' = "loop" => (currentLayer' = 0 /\ keyState' = keyState)]_vars

\* The layer key and the func key have been committed by the same scan, which
\* resolved layer 2 and lit the LED, before either is dispatched.
C13_Witness ==
  /\ pc = "action"
  /\ keyState[2][5] /\ ~prevInputState[2][5]
  /\ keyState[1][6] /\ ~prevInputState[1][6]
  /\ currentLayer = 2 /\ led

\* C14: on layer 0 with sticky mode off, whenever the raw signal of a
\* character cell is HIGH and the cell's press has not been dispatched, either
\* the signal goes LOW again or the press of the character is sent, alone;
\* the step that dispatches the press sends exactly that one call, and a
\* later event of the cell is dispatched only after its raw signal went LOW.
C14_HeldKeyPressedOnce ==
  /\ \A cell \in HoldCells :
       (At(lastRawState, cell) /\ ~At(prevInputState, cell))
         ~> (\/ ~At(lastRawState, cell)
             \/ (/\ edge.cell = cell /\ edge.pressed
                 /\ sent = << Press(KeyAt(0, cell)) >>))
  /\ [][\A cell \in HoldCells :
          (Dispatching /\ EdgeCell = cell) =>
            IF At(prevInputState, cell)
            THEN ~At(lastRawState, cell) /\ ~EdgePressed
            ELSE sent' = << Press(KeyAt(0, cell)) >>]_vars

\* The press of 'q' has just been sent, its samples having been HIGH for the
\* debounce window and still being HIGH.
C14_Witness ==
  /\ edge.cell = QCell /\ edge.pressed
  /\ sent = << Press("q") >>
  /\ lastRawState[0][0] /\ rawHist[0][0].held >= DEBOUNCE_DELAY
  /\ ~stickyModeEnabled /\ currentLayer = 0

\* C15: the dispatch of a press edge of the sticky toggle in normal mode
\* enables sticky mode, changes no latch and sends nothing; the dispatch of
\* its release edge changes nothing in the sticky state and sends nothing.
C15_EnableHasNoSideEffect ==
  [][(Dispatching /\ EdgeCode = STICKY) =>
       /\ (EdgePressed /\ ~stickyModeEnabled) =>
            (stickyModeEnabled' /\ latchVars' = latchVars /\ sent' = << >>)
       /\ ~EdgePressed => (stickyVars' = stickyVars /\ sent' = << >>)]_vars

\* The release of the sticky toggle has just been dispatched in sticky mode,
\* which its press had enabled, with the layer-1 latch set: the mode and the
\* latch are as they were and nothing was sent.
C15_Witness ==
  /\ edge.code = STICKY /\ ~edge.pressed
  /\ modeLog = << FALSE >>
  /\ stickyModeEnabled /\ stickyL1
  /\ sent = << >>

\* C16: the dispatch of an edge, press or release, whose code on the active
\* layer is ______ sends nothing and changes nothing in the sticky state;
\* of the firmware's state it changes only the cell's entry of
\* prevInputState.
C16_BlankDoesNothing ==
  [][(Dispatching /\ EdgeCode = Blank) =>
       /\ sent' = << >>
       /\ stickyVars' = stickyVars
       /\ prevInputState' =
            [prevInputState EXCEPT ![EdgeCell[1]][EdgeCell[2]] = EdgePressed]
       /\ UNCHANGED <<keyState, lastRawState, sinceDebounce, led>>]_vars

\* On layer 3, resolved from the layer key and the shift latch, the press of
\* a cell that is ______ there has just been dispatched and nothing was sent.
C16_Witness ==
  /\ edge.code = Blank /\ edge.pressed
  /\ currentLayer = 3
  /\ stickyModeEnabled /\ stickyShift
  /\ sent = << >>

\* C17, as stated: a scan commits the sample of a cell whenever the sample
\* differs from the stable value and the time since the last raw change is
\* at least DEBOUNCE_DELAY, the scan at which it equals DEBOUNCE_DELAY
\* included.
C17_CommitsAtDelay ==
  [][pc = "loop" =>
       \A r \in Rows, c \in Cols :
         (/\ lastRawState'[r][c] # keyState[r][c]
          /\ sinceDebounce'[r][c] >= DEBOUNCE_DELAY) =>
           keyState'[r][c] = lastRawState'[r][c]]_vars

\* C17, amended: a scan commits the sample of a cell exactly when the sample
\* differs from the stable value and the time since the last raw change is
\* more than DEBOUNCE_DELAY, so not at the scan at which it equals
\* DEBOUNCE_DELAY; a sample that differs from the last raw state restarts
\* the time and becomes the last raw state.
C17_CommitsAfterDelay ==
  [][pc = "loop" =>
       \A r \in Rows, c \in Cols :
         /\ keyState'[r][c] =
              (IF /\ lastRawState'[r][c] # keyState[r][c]
                  /\ sinceDebounce'[r][c] > DEBOUNCE_DELAY
               THEN lastRawState'[r][c]
               ELSE keyState[r][c])
         /\ lastRawState'[r][c] # lastRawState[r][c] => sinceDebounce'[r][c] = 0
         /\ lastRawState'[r][c] = lastRawState[r][c] =>
              sinceDebounce'[r][c] >= sinceDebounce[r][c]]_vars

\* A scan has sampled cell [1][6] HIGH exactly DEBOUNCE_DELAY milliseconds
\* after its last raw change, and has not committed the press.
C17_Witness ==
  /\ pc = "action"
  /\ lastRawState[1][6] /\ sinceDebounce[1][6] = DEBOUNCE_DELAY
  /\ ~keyState[1][6]

\* C19: whenever sticky mode is off all five latches are false; hence a scan
\* in normal mode resolves the layer from the stable matrix alone, and the
\* press of a character key dispatched in normal mode sends the press of the
\* character and nothing else.
C19_NormalModeHasNoLatch ==
  /\ [](~stickyModeEnabled => NoLatch)
  /\ [][/\ (pc = "loop" /\ ~stickyModeEnabled) =>
              currentLayer' = LayerOf(keyState'[2][5], keyState'[1][6], keyState'[3][2])
        /\ (/\ Dispatching /\ ~stickyModeEnabled /\ EdgePressed
            /\ EdgeCode \notin {STICKY, KC_L1, KEY_FUNC, Blank} \cup Modifiers) =>
              sent' = << Press(EdgeCode) >>]_vars

\* Sticky mode has been enabled and disabled again, cell [3][3] is held
\* stable-pressed, and the press of '!' dispatched in normal mode has sent
\* press('!') alone.
C19_Witness ==
  /\ edge.code = "!" /\ edge.pressed
  /\ ~stickyModeEnabled /\ NoLatch
  /\ Len(modeLog) >= 2
  /\ keyState[3][3]
  /\ sent = << Press("!") >>

\* C18: in the 2-layer firmware the layer of a scan is 1 exactly when the
\* layer-key cell [2][1] was stable-pressed when the previous scan ended,
\* else 0; every cell whose stable state the scan changes, the layer key's
\* change in the same scan notwithstanding, sends the call of its keycode on
\* that layer, and nothing else is sent; no call carries KC_L1.
C18_LayerFixedAtScanStart ==
  [][LET layer   == IF keyState_2L[2][1] THEN 1 ELSE 0
         changed == {cell \in Cells : At(keyState_2L', cell) # At(keyState_2L, cell)}
         sending == {cell \in changed : KeyAt_2L(layer, cell) \notin {KC_L1, Blank}}
         call(cell) == IF At(keyState_2L', cell)
                       THEN Press(KeyAt_2L(layer, cell))
                       ELSE Release(KeyAt_2L(layer, cell))
     IN  /\ currentLayer_2L' = layer
         /\ Len(sent_2L') = Cardinality(sending)
         /\ \A cell \in sending : \E i \in 1 .. Len(sent_2L') : sent_2L'[i] = call(cell)
         /\ \A i \in 1 .. Len(sent_2L') : sent_2L'[i].code # KC_L1]_vars

\* One scan has committed the press of the layer key and the press of cell
\* [2][2]: the scan ran on layer 0 and sent press('b'), not press('1').
C18_Witness ==
  /\ keyState_2L[2][1] /\ keyState_2L[2][2]
  /\ currentLayer_2L = 0
  /\ sent_2L = << Press("b") >>

\* C20: when a scan of the 2-layer firmware commits the release of a cell,
\* the code it sends with release() is the code that the cell's press sent
\* with press(): a press that sent press(code) is answered by release(code),
\* and a release(code) is sent only for a cell whose press sent press(code),
\* whatever the layer has become while the key was held.
C20_ReleaseMatchesPress ==
  [][\A cell \in Cells :
       (At(keyState_2L, cell) /\ ~At(keyState_2L', cell)) =>
         LET code == KeyAt_2L(currentLayer_2L', cell)
         IN  /\ \A p \in pressedAs_2L :
                  p[1] = cell =>
                    \E i \in 1 .. Len(sent_2L') : sent_2L'[i] = Release(p[2])
             /\ code \notin {KC_L1, Blank} => <<cell, code>> \in pressedAs_2L]_vars

\* C21: in sticky mode, when the press of a latch key's cell (layer toggle,
\* shift, ctrl or alt) is dispatched and the press dispatched before it was
\* the press of the same cell, with sticky mode on and no other cell
\* stable-pressed from that press to this one, the key's latch is after this
\* press what it was before that one, whatever the other latches are.
C21_TwoPressesRestoreLatch ==
  [][(/\ Dispatching /\ EdgePressed
      /\ stickyModeEnabled /\ stickyModeEnabled'
      /\ latchLog.armed /\ latchLog.cell = EdgeCell
      /\ OnlyPressed(keyState, EdgeCell)) =>
       /\ EdgeCell = L1Cell => stickyL1' = latchLog.was
       /\ EdgeCell = ShiftCell => stickyShift' = latchLog.was
       /\ EdgeCell = CtrlCell => stickyCtrl' = latchLog.was
       /\ EdgeCell = StickyCell => stickyAlt' = latchLog.was]_vars

=============================================================================
